---------------------------- MODULE Spec2Model ----------------------------
(***************************************************************************)
(* A model of neqo-transport/src/events.rs: ConnectionEvents, the shared,  *)
(* deduplicating, ordered mailbox of ConnectionEvent values.               *)
(*                                                                         *)
(* The BTreeSet<ConnectionEvent> is modelled as the sequence a BTreeSet    *)
(* iterates in: its elements in the order of the derived Ord, found by     *)
(* comparison on every insert.  The RefCell around it is modelled by its   *)
(* borrow flag, and a failed borrow by the panic it raises.                *)
(***************************************************************************)
EXTENDS Integers, Sequences, FiniteSets

(***************************************************************************)
(* Bounds of the model.                                                    *)
(***************************************************************************)
\* stream ids are drawn from 0..MaxStreamId
MaxStreamId == 1
\* the producers raise at most MaxPending distinct events between two drains
MaxPending == 3
\* a datagram's payload has at most MaxPayloadLen bytes
MaxPayloadLen == 2
\* a connection holds at most MaxHandles clones of its ConnectionEvents
MaxHandles == 2

(***************************************************************************)
(* The field types of ConnectionEvent.                                     *)
(***************************************************************************)
StreamIds == 0..MaxStreamId

\* AppError = u64: the application's error codes, two of them.
AppErrors == {0, 1}

\* crate::frame::StreamType, by discriminant: BiDi = 0, UniDi = 1.
StreamTypes == {0, 1}

\* crate::frame::CloseError as <<discriminant, code>>: Transport(code) has
\* discriminant 0 and Application(code) has discriminant 1.  The producers of
\* the model close with Transport(0).
CloseErrors == {<<0, 0>>}

FrameTypes == {0, 1}

\* reason_phrase: String, as the sequence of its bytes: "" and "a".
ReasonPhrases == {<< >>, <<97>>}

(***************************************************************************)
(* enum ConnectionEvent.  A value is its variant and the tuple of its      *)
(* fields in declared order.                                               *)
(***************************************************************************)
Ev(v, f) == [variant |-> v, fields |-> f]

NewStream(stream_id, stream_type) == Ev("NewStream", <<stream_id, stream_type>>)

SendStreamWritable(stream_id) == Ev("SendStreamWritable", <<stream_id>>)

RecvStreamReadable(stream_id) == Ev("RecvStreamReadable", <<stream_id>>)

RecvStreamReset(stream_id, app_error) == Ev("RecvStreamReset", <<stream_id, app_error>>)

SendStreamStopSending(stream_id, app_error) ==
    Ev("SendStreamStopSending", <<stream_id, app_error>>)

SendStreamComplete(stream_id) == Ev("SendStreamComplete", <<stream_id>>)

SendStreamCreatable(stream_type) == Ev("SendStreamCreatable", <<stream_type>>)

ConnectionClosed(error_code, frame_type, reason_phrase) ==
    Ev("ConnectionClosed", <<error_code, frame_type, reason_phrase>>)

ZeroRttRejected == Ev("ZeroRttRejected", << >>)

\* Every value the producers of the model can raise.
ConnectionEvent ==
    {NewStream(s, t) : s \in StreamIds, t \in StreamTypes}
    \cup {SendStreamWritable(s) : s \in StreamIds}
    \cup {RecvStreamReadable(s) : s \in StreamIds}
    \cup {RecvStreamReset(s, a) : s \in StreamIds, a \in AppErrors}
    \cup {SendStreamStopSending(s, a) : s \in StreamIds, a \in AppErrors}
    \cup {SendStreamComplete(s) : s \in StreamIds}
    \cup {SendStreamCreatable(t) : t \in StreamTypes}
    \cup {ConnectionClosed(c, f, r) : c \in CloseErrors, f \in FrameTypes, r \in ReasonPhrases}
    \cup {ZeroRttRejected}

(***************************************************************************)
(* #[derive(PartialOrd, Ord, PartialEq, Eq)] on ConnectionEvent: the       *)
(* discriminant (declaration order) first, then the fields in declared     *)
(* order.  A comparison yields -1 (Less), 0 (Equal) or 1 (Greater).        *)
(***************************************************************************)
CmpInt(a, b) == IF a < b THEN -1 ELSE IF a > b THEN 1 ELSE 0

\* Ord for String (and for [u8]): lexicographic, a proper prefix is Less.
RECURSIVE CmpBytes(_, _)
CmpBytes(a, b) ==
    IF a = << >> /\ b = << >> THEN 0
    ELSE IF a = << >> THEN -1
    ELSE IF b = << >> THEN 1
    ELSE IF Head(a) # Head(b) THEN CmpInt(Head(a), Head(b))
    ELSE CmpBytes(Tail(a), Tail(b))

\* derived Ord for CloseError: the discriminant, then the code.
CmpCloseError(a, b) ==
    IF a[1] # b[1] THEN CmpInt(a[1], b[1]) ELSE CmpInt(a[2], b[2])

\* A declaration with ZeroRttRejected as its first variant.
VariantRank_RejectedFirst(v) ==
    CASE v = "ZeroRttRejected" -> 0
      [] v = "NewStream" -> 1
      [] v = "SendStreamWritable" -> 2
      [] v = "RecvStreamReadable" -> 3
      [] v = "RecvStreamReset" -> 4
      [] v = "SendStreamStopSending" -> 5
      [] v = "SendStreamComplete" -> 6
      [] v = "SendStreamCreatable" -> 7
      [] v = "ConnectionClosed" -> 8

\* A declaration with RecvStreamReadable and SendStreamComplete exchanged.
VariantRank_Swapped(v) ==
    CASE v = "NewStream" -> 0
      [] v = "SendStreamWritable" -> 1
      [] v = "SendStreamComplete" -> 2
      [] v = "RecvStreamReset" -> 3
      [] v = "SendStreamStopSending" -> 4
      [] v = "RecvStreamReadable" -> 5
      [] v = "SendStreamCreatable" -> 6
      [] v = "ConnectionClosed" -> 7
      [] v = "ZeroRttRejected" -> 8

\* The discriminant of a variant: its position in the declaration.
VariantRank(v) ==
    CASE v = "NewStream" -> 0
      [] v = "SendStreamWritable" -> 1
      [] v = "RecvStreamReadable" -> 2
      [] v = "RecvStreamReset" -> 3
      [] v = "SendStreamStopSending" -> 4
      [] v = "SendStreamComplete" -> 5
      [] v = "SendStreamCreatable" -> 6
      [] v = "ConnectionClosed" -> 7
      [] v = "ZeroRttRejected" -> 8

\* A comparison that stops at the first field.
CmpFields_FirstOnly(v, f, g) ==
    CASE v \in {"SendStreamWritable", "RecvStreamReadable", "SendStreamComplete",
                "SendStreamCreatable", "NewStream", "RecvStreamReset",
                "SendStreamStopSending"} ->
            CmpInt(f[1], g[1])
      [] v = "ConnectionClosed" -> CmpCloseError(f[1], g[1])
      [] v = "ZeroRttRejected" -> 0

\* The fields of two values of one variant, compared in declared order.
CmpFields(v, f, g) ==
    CASE v \in {"SendStreamWritable", "RecvStreamReadable", "SendStreamComplete",
                "SendStreamCreatable"} ->
            CmpInt(f[1], g[1])
      [] v \in {"NewStream", "RecvStreamReset", "SendStreamStopSending"} ->
            IF f[1] # g[1] THEN CmpInt(f[1], g[1]) ELSE CmpInt(f[2], g[2])
      [] v = "ConnectionClosed" ->
            IF CmpCloseError(f[1], g[1]) # 0 THEN CmpCloseError(f[1], g[1])
            ELSE IF f[2] # g[2] THEN CmpInt(f[2], g[2])
            ELSE CmpBytes(f[3], g[3])
      [] v = "ZeroRttRejected" -> 0

cmp(a, b) ==
    IF a.variant # b.variant
    THEN CmpInt(VariantRank(a.variant), VariantRank(b.variant))
    ELSE CmpFields(a.variant, a.fields, b.fields)

(***************************************************************************)
(* BTreeSet<ConnectionEvent>, as the sequence it iterates in.              *)
(***************************************************************************)
\* BTreeSet::new(), which is also what Default gives the cell.
BTreeSetNew == << >>

\* A BTreeSet::insert that overwrites the element it should go in front of.
RECURSIVE BTreeSetInsert_Overwrite(_, _)
BTreeSetInsert_Overwrite(s, e) ==
    IF s = << >> THEN <<e>>
    ELSE IF cmp(e, Head(s)) = 0 THEN s
    ELSE IF cmp(e, Head(s)) < 0 THEN <<e>> \o Tail(s)
    ELSE <<Head(s)>> \o BTreeSetInsert_Overwrite(Tail(s), e)

\* A BTreeSet::insert that never finds the value present.
RECURSIVE BTreeSetInsert_Duplicating(_, _)
BTreeSetInsert_Duplicating(s, e) ==
    IF s = << >> THEN <<e>>
    ELSE IF cmp(e, Head(s)) <= 0 THEN <<e>> \o s
    ELSE <<Head(s)>> \o BTreeSetInsert_Duplicating(Tail(s), e)

\* An insert under which the newest event of a variant replaces the others.
BTreeSetInsert_OnePerVariant(s, e) ==
    BTreeSetInsert_Overwrite(SelectSeq(s, LAMBDA x : x.variant # e.variant), e)

\* BTreeSet::insert: search by cmp; an Equal element is kept and the new value
\* dropped, otherwise the value goes in front of the first Greater element.
RECURSIVE BTreeSetInsert(_, _)
BTreeSetInsert(s, e) ==
    IF s = << >> THEN <<e>>
    ELSE LET o == cmp(e, Head(s))
         IN  IF o = 0 THEN s
             ELSE IF o < 0 THEN <<e>> \o s
             ELSE <<Head(s)>> \o BTreeSetInsert(Tail(s), e)

\* A clear that removes nothing.
BTreeSetClear_Keep(s) == s

\* BTreeSet::clear.
BTreeSetClear(s) == << >>

Range(s) == {s[i] : i \in 1..Len(s)}


(***************************************************************************)
(* The state.                                                              *)
(*                                                                         *)
(* events, borrow and panicked are the RefCell<BTreeSet<..>> every clone   *)
(* of the handle points to: its value, its borrow flag, and whether a      *)
(* borrow has failed (a panic: "already borrowed").  pc is the place of    *)
(* the one thread of control: "idle" between calls, "rejecting" between    *)
(* the two statements of client_0rtt_rejected.  ret is what the call that  *)
(* has just returned gave back (events() alone returns something).         *)
(*                                                                         *)
(* The others are history variables, read by the properties only: lastOp, *)
(* arg and pre are the last call, the event it built and the value of the  *)
(* cell when it began; live is the set of events raised since the last     *)
(* drain or rejection, owed the set the last drain had to deliver; streak  *)
(* counts the drains in a row (up to two) and fresh tells that nothing was *)
(* ever inserted; hadBacklog tells that a rejection since the last drain   *)
(* found events pending, and reraised that the event of the last insert    *)
(* had just been returned by a drain or discarded by a rejection.          *)
(***************************************************************************)
VARIABLES events, borrow, panicked, pc, ret, lastOp, arg, pre, live, owed, streak, fresh,
          hadBacklog, reraised

vars == <<events, borrow, panicked, pc, ret, lastOp, arg, pre, live, owed, streak, fresh,
          hadBacklog, reraised>>

(***************************************************************************)
(* The handles.  A ConnectionEvents is an Rc: the address of a cell.  The  *)
(* cell Default allocates has address 0, and it is events, borrow and      *)
(* panicked above; others holds every cell allocated after it, others[k]   *)
(* at address k.  handles[i] is the address handle i holds, and by is the  *)
(* handle the last call was made through.                                  *)
(***************************************************************************)
VARIABLES handles, others, by

hvars == <<handles, others, by>>

\* The value of arg after a call that builds no event.
NoEvent == Ev("none", << >>)

InsertOps == {"new_stream", "send_stream_writable", "recv_stream_readable",
              "recv_stream_reset", "send_stream_stop_sending", "send_stream_complete",
              "send_stream_creatable", "connection_closed"}

(***************************************************************************)
(* RefCell.  A cell is its value, its borrow flag and the panic flag.      *)
(***************************************************************************)
Cell == [value |-> events, flag |-> borrow, panicked |-> panicked]

Store(c) == events' = c.value /\ borrow' = c.flag /\ panicked' = c.panicked

\* The cell a handle points to, and a new value for it.
CellAt(self) == IF handles[self] = 0 THEN Cell ELSE others[handles[self]]

StoreAt(self, c) ==
    IF handles[self] = 0
    THEN Store(c) /\ others' = others
    ELSE others' = [others EXCEPT ![handles[self]] = c] /\ UNCHANGED <<events, borrow, panicked>>

\* A clone that allocates a cell of its own and copies the set into it.
ConnectionEvents_clone_Deep(hs, os, self) ==
    [handles |-> Append(hs, Len(os) + 1),
     others |-> Append(os, IF hs[self] = 0 THEN Cell ELSE os[hs[self]])]

\* #[derive(Clone)] on ConnectionEvents: Rc::clone, the same address again.
ConnectionEvents_clone(hs, os, self) ==
    [handles |-> Append(hs, hs[self]), others |-> os]

\* RefCell::borrow_mut: panics unless the cell is unused.
BorrowMut(c) ==
    IF c.flag = "UNUSED" THEN [c EXCEPT !.flag = "WRITING"]
    ELSE [c EXCEPT !.panicked = TRUE]

\* The temporary RefMut is dropped at the end of its statement.
DropRefMut(c) == [c EXCEPT !.flag = "UNUSED"]

\* A constructor that starts the mailbox with an event in it.
Default_Seeded == [value |-> <<ZeroRttRejected>>, flag |-> "UNUSED", panicked |-> FALSE]

\* #[derive(Default)]: an unused cell around an empty set.
Default == [value |-> BTreeSetNew, flag |-> "UNUSED", panicked |-> FALSE]

\* An insert that adds nothing while a rejection notice is pending.
insert_NothingAfterRejection(c, event) ==
    LET b == BorrowMut(c)
    IN  IF b.panicked THEN b
        ELSE IF ZeroRttRejected \in Range(c.value) THEN c
        ELSE DropRefMut([b EXCEPT !.value = BTreeSetInsert(@, event)])

\* An insert that gives up once the connection is closed.
insert_ClosedIsFinal(c, event) ==
    LET b == BorrowMut(c)
    IN  IF b.panicked THEN b
        ELSE IF \E x \in Range(c.value) : x.variant = "ConnectionClosed" THEN c
        ELSE DropRefMut([b EXCEPT !.value = BTreeSetInsert(@, event)])

\* fn insert: self.events.borrow_mut().insert(event);
insert(c, event) ==
    LET b == BorrowMut(c)
    IN  IF b.panicked THEN b
        ELSE DropRefMut([b EXCEPT !.value = BTreeSetInsert(@, event)])

\* The first statement with its RefMut bound to a name that lives to the end
\* of the function: let mut e = self.events.borrow_mut(); e.clear();
clear_stmt_Held(c) ==
    LET b == BorrowMut(c)
    IN  IF b.panicked THEN b
        ELSE [b EXCEPT !.value = BTreeSetClear(@)]

\* The first statement of client_0rtt_rejected: self.events.borrow_mut().clear();
clear_stmt(c) ==
    LET b == BorrowMut(c)
    IN  IF b.panicked THEN b
        ELSE DropRefMut([b EXCEPT !.value = BTreeSetClear(@)])

\* A drain that copies the set and leaves it in place.
replace_Copy(c, t) ==
    LET b == BorrowMut(c)
    IN  IF b.panicked THEN [cell |-> b, ret |-> << >>]
        ELSE [cell |-> DropRefMut(b), ret |-> b.value]

\* A drain that empties the set and returns the new, empty one.
replace_Lose(c, t) ==
    LET b == BorrowMut(c)
    IN  IF b.panicked THEN [cell |-> b, ret |-> << >>]
        ELSE [cell |-> DropRefMut([b EXCEPT !.value = t]), ret |-> t]

\* A drain that returns the set and leaves its first element behind.
replace_LeaveFirst(c, t) ==
    LET b == BorrowMut(c)
    IN  IF b.panicked THEN [cell |-> b, ret |-> << >>]
        ELSE [cell |-> DropRefMut([b EXCEPT !.value = IF @ = << >> THEN << >> ELSE <<Head(@)>>]), ret |-> b.value]

\* RefCell::replace: mem::replace(&mut *self.borrow_mut(), t).
replace(c, t) ==
    LET b == BorrowMut(c)
    IN  IF b.panicked THEN [cell |-> b, ret |-> << >>]
        ELSE [cell |-> DropRefMut([b EXCEPT !.value = t]), ret |-> b.value]

(***************************************************************************)
(* neqo-common/src/datagram.rs: struct Datagram { src, dst, d }.           *)
(*                                                                         *)
(* A SocketAddr is <<ip, port>>, a payload the sequence of its bytes.  A   *)
(* method taking &self is modelled by the datagram it leaves behind (self) *)
(* and what it returns (ret).                                              *)
(***************************************************************************)
SocketAddrs == {<<1, 443>>, <<2, 443>>, <<1, 80>>}

\* u8 values: the least and the greatest.
Bytes == {0, 255}

RECURSIVE SeqsUpTo(_, _)
SeqsUpTo(S, n) ==
    IF n = 0 THEN {<< >>}
    ELSE SeqsUpTo(S, n - 1) \cup {<<x>> \o t : x \in S, t \in {u \in SeqsUpTo(S, n - 1) : Len(u) = n - 1}}

Payloads == SeqsUpTo(Bytes, MaxPayloadLen)

\* d.into(): the bytes given, copied one by one into a new Vec<u8>.
RECURSIVE IntoVec(_)
IntoVec(d) == IF d = << >> THEN << >> ELSE <<Head(d)>> \o IntoVec(Tail(d))

\* A constructor that stores the endpoints the wrong way round.
new_Swapped(src, dst, d) == [src |-> dst, dst |-> src, d |-> IntoVec(d)]

\* Datagram::new.
new(src, dst, d) == [src |-> src, dst |-> dst, d |-> IntoVec(d)]

\* Datagram::source: SocketAddr is Copy.
source(self) == [self |-> self, ret |-> self.src]

\* Datagram::destination.
destination(self) == [self |-> self, ret |-> self.dst]

\* A payload view that takes the bytes out of the datagram.
deref_Take(self) == [self |-> [self EXCEPT !.d = << >>], ret |-> self.d]

\* Deref for Datagram: &self.d.
deref(self) == [self |-> self, ret |-> self.d]

\* #[derive(Clone)]: a field-by-field copy.
clone(self) == [self |-> self, ret |-> [src |-> self.src, dst |-> self.dst, d |-> IntoVec(self.d)]]

\* #[derive(PartialEq)]: all three fields equal.
eq(self, other) ==
    [self |-> self, ret |-> (self.src = other.src /\ self.dst = other.dst /\ self.d = other.d)]

(***************************************************************************)
(* The state of a datagram's life: given is what Datagram::new was called  *)
(* with, dgram the datagram it made (<< >> before, <<the datagram>> after),*)
(* dcopy a clone of it, and seen the last method called on it with what it *)
(* returned.                                                               *)
(***************************************************************************)
VARIABLES given, dgram, dcopy, seen

dvars == <<given, dgram, dcopy, seen>>

NothingSeen == [op |-> "none", value |-> << >>]

DatagramInit ==
    /\ given = << >>
    /\ dgram = << >>
    /\ dcopy = << >>
    /\ seen = NothingSeen

(***************************************************************************)
(* Scheduling.  The handle is an Rc, so every clone lives on one thread,   *)
(* and no method calls back into its caller: a call starts only when no    *)
(* other call is in progress, and nothing runs after a panic.              *)
(***************************************************************************)
\* Callers that may run between the statements of another call.
CanCall_Preempting == ~panicked

CanCall == pc = "idle" /\ ~panicked

\* The producers of the model stop raising new events at MaxPending.
Admissible(event) == event \in Range(events) \/ Len(events) < MaxPending

Init ==
    /\ events = Default.value
    /\ borrow = Default.flag
    /\ panicked = Default.panicked
    /\ pc = "idle"
    /\ ret = << >>
    /\ lastOp = "default"
    /\ arg = NoEvent
    /\ pre = << >>
    /\ live = {}
    /\ owed = {}
    /\ streak = 0
    /\ fresh = TRUE
    /\ hadBacklog = FALSE
    /\ reraised = FALSE
    /\ handles = <<0>>
    /\ others = << >>
    /\ by = 1
    /\ DatagramInit

\* One of the eight insert operations, op, called on the handle self and
\* having built event.
InsertVia(self, op, event) ==
    /\ CanCall
    /\ Admissible(event)
    /\ StoreAt(self, insert(CellAt(self), event))
    /\ by' = self
    /\ lastOp' = op
    /\ arg' = event
    /\ pre' = CellAt(self).value
    /\ live' = live \cup {event}
    /\ owed' = {}
    /\ ret' = << >>
    /\ streak' = 0
    /\ fresh' = FALSE
    /\ reraised' = \/ lastOp = "events" /\ event \in Range(ret)
                   \/ lastOp = "client_0rtt_rejected" /\ pc = "idle" /\ event \in Range(pre)
    /\ UNCHANGED <<pc, hadBacklog, handles>>
    /\ UNCHANGED dvars

\* The same, on the handle the connection was built with.
InsertCall(op, event) == InsertVia(1, op, event)

new_stream(stream_id, stream_type) ==
    InsertCall("new_stream", NewStream(stream_id, stream_type))

send_stream_writable(stream_id) ==
    InsertCall("send_stream_writable", SendStreamWritable(stream_id))

recv_stream_readable(stream_id) ==
    InsertCall("recv_stream_readable", RecvStreamReadable(stream_id))

recv_stream_reset(stream_id, app_error) ==
    InsertCall("recv_stream_reset", RecvStreamReset(stream_id, app_error))

send_stream_stop_sending(stream_id, app_error) ==
    InsertCall("send_stream_stop_sending", SendStreamStopSending(stream_id, app_error))

send_stream_complete(stream_id) ==
    InsertCall("send_stream_complete", SendStreamComplete(stream_id))

send_stream_creatable(stream_type) ==
    InsertCall("send_stream_creatable", SendStreamCreatable(stream_type))

connection_closed(error_code, frame_type, reason_phrase) ==
    InsertCall("connection_closed", ConnectionClosed(error_code, frame_type, reason_phrase))

\* client_0rtt_rejected on the handle self, its first statement: the pending
\* set is cleared.
client_0rtt_rejected_clear_via(self) ==
    /\ CanCall
    /\ StoreAt(self, clear_stmt(CellAt(self)))
    /\ by' = self
    /\ pc' = "rejecting"
    /\ lastOp' = "client_0rtt_rejected"
    /\ arg' = ZeroRttRejected
    /\ pre' = CellAt(self).value
    /\ live' = {}
    /\ owed' = {}
    /\ ret' = << >>
    /\ streak' = 0
    /\ fresh' = FALSE
    /\ hadBacklog' = (CellAt(self).value # << >>)
    /\ reraised' = FALSE
    /\ UNCHANGED handles
    /\ UNCHANGED dvars

client_0rtt_rejected_clear == client_0rtt_rejected_clear_via(1)

\* client_0rtt_rejected, its second statement: self.insert(ZeroRttRejected),
\* on the handle the first statement ran on.
client_0rtt_rejected_insert ==
    /\ pc = "rejecting"
    /\ ~panicked
    /\ StoreAt(by, insert(CellAt(by), ZeroRttRejected))
    /\ pc' = "idle"
    /\ live' = live \cup {ZeroRttRejected}
    /\ UNCHANGED <<ret, lastOp, arg, pre, owed, streak, fresh, hadBacklog, reraised>>
    /\ UNCHANGED <<handles, by>>
    /\ UNCHANGED dvars

\* events() on the handle self: the cell's value is taken and an empty set
\* left in its place.
events_via(self) ==
    /\ CanCall
    /\ LET r == replace(CellAt(self), BTreeSetNew)
       IN  StoreAt(self, r.cell) /\ ret' = r.ret
    /\ by' = self
    /\ lastOp' = "events"
    /\ arg' = NoEvent
    /\ pre' = CellAt(self).value
    /\ owed' = live
    /\ live' = {}
    /\ streak' = IF streak < 2 THEN streak + 1 ELSE streak
    /\ hadBacklog' = FALSE
    /\ reraised' = FALSE
    /\ UNCHANGED <<pc, fresh, handles>>
    /\ UNCHANGED dvars

events_fn == events_via(1)

Next ==
    \/ \E s \in StreamIds, t \in StreamTypes : new_stream(s, t)
    \/ \E s \in StreamIds : send_stream_writable(s)
    \/ \E s \in StreamIds : recv_stream_readable(s)
    \/ \E s \in StreamIds, a \in AppErrors : recv_stream_reset(s, a)
    \/ \E s \in StreamIds, a \in AppErrors : send_stream_stop_sending(s, a)
    \/ \E s \in StreamIds : send_stream_complete(s)
    \/ \E t \in StreamTypes : send_stream_creatable(t)
    \/ \E c \in CloseErrors, f \in FrameTypes, r \in ReasonPhrases : connection_closed(c, f, r)
    \/ client_0rtt_rejected_clear
    \/ client_0rtt_rejected_insert
    \/ events_fn

Spec == Init /\ [][Next]_<<vars, hvars, dvars>>

(***************************************************************************)
(* The connection and its streams: the handle is cloned, and the clones    *)
(* raise events, reject and drain.  The streams of this specification      *)
(* raise SendStreamWritable and RecvStreamReadable.                        *)
(***************************************************************************)
Handles == 1..Len(handles)

\* self.clone(): one more handle.
clone_handle(self) ==
    /\ CanCall
    /\ Len(handles) < MaxHandles
    /\ LET r == ConnectionEvents_clone(handles, others, self)
       IN  handles' = r.handles /\ others' = r.others
    /\ UNCHANGED <<vars, by>>
    /\ UNCHANGED dvars

send_stream_writable_via(self, stream_id) ==
    InsertVia(self, "send_stream_writable", SendStreamWritable(stream_id))

recv_stream_readable_via(self, stream_id) ==
    InsertVia(self, "recv_stream_readable", RecvStreamReadable(stream_id))

NextClones ==
    \/ \E self \in Handles : clone_handle(self)
    \/ \E self \in Handles, s \in StreamIds : send_stream_writable_via(self, s)
    \/ \E self \in Handles, s \in StreamIds : recv_stream_readable_via(self, s)
    \/ \E self \in Handles : client_0rtt_rejected_clear_via(self)
    \/ client_0rtt_rejected_insert
    \/ \E self \in Handles : events_via(self)

SpecClones == Init /\ [][NextClones]_<<vars, hvars, dvars>>

(***************************************************************************)
(* The life of one datagram: made by the socket layer, read by the I/O and *)
(* parsing layers in any order and any number of times, cloned, compared   *)
(* with its clone, dropped.  The mailbox is not touched.                   *)
(***************************************************************************)
Datagram_new(src, dst, d) ==
    /\ dgram = << >>
    /\ given' = [src |-> src, dst |-> dst, d |-> d]
    /\ dgram' = <<new(src, dst, d)>>
    /\ dcopy' = << >>
    /\ seen' = NothingSeen
    /\ UNCHANGED <<vars, hvars>>

\* A method taking &self and nothing else, called on the datagram.
DatagramRead(op, r) ==
    /\ dgram' = <<r.self>>
    /\ seen' = [op |-> op, value |-> r.ret]
    /\ UNCHANGED <<given, dcopy>>
    /\ UNCHANGED <<vars, hvars>>

Datagram_source == dgram # << >> /\ DatagramRead("source", source(dgram[1]))

Datagram_destination == dgram # << >> /\ DatagramRead("destination", destination(dgram[1]))

Datagram_deref == dgram # << >> /\ DatagramRead("deref", deref(dgram[1]))

Datagram_clone ==
    /\ dgram # << >>
    /\ LET r == clone(dgram[1])
       IN  /\ dgram' = <<r.self>>
           /\ dcopy' = <<r.ret>>
           /\ seen' = [op |-> "clone", value |-> r.ret.d]
    /\ UNCHANGED given
    /\ UNCHANGED <<vars, hvars>>

Datagram_eq ==
    /\ dgram # << >>
    /\ dcopy # << >>
    /\ DatagramRead("eq", eq(dgram[1], dcopy[1]))

\* The owning call frame ends.
Datagram_drop ==
    /\ dgram # << >>
    /\ given' = << >>
    /\ dgram' = << >>
    /\ dcopy' = << >>
    /\ seen' = NothingSeen
    /\ UNCHANGED <<vars, hvars>>

NextDatagram ==
    \/ \E src \in SocketAddrs, dst \in SocketAddrs, d \in Payloads : Datagram_new(src, dst, d)
    \/ Datagram_source
    \/ Datagram_destination
    \/ Datagram_deref
    \/ Datagram_clone
    \/ Datagram_eq
    \/ Datagram_drop

SpecDatagram == Init /\ [][NextDatagram]_<<vars, hvars, dvars>>

(***************************************************************************)
(* What the properties below read.                                         *)
(***************************************************************************)
\* The last call was one of the eight insert operations, and has returned.
AfterInsert == lastOp \in InsertOps

\* The last call was client_0rtt_rejected, and it has returned.
AfterRejection == lastOp = "client_0rtt_rejected" /\ pc = "idle"

\* The last call was events(), and it has returned ret.
AfterDrain == lastOp = "events"

\* What events() would return if it were called in this state.
DrainNow == replace(Cell, BTreeSetNew).ret

\* How many times e occurs in the sequence s.
Occurrences(s, e) == Cardinality({i \in 1..Len(s) : s[i] = e})

(***************************************************************************)
(* C1.  Whatever was pending, client_0rtt_rejected() leaves exactly the    *)
(* one event ZeroRttRejected in the mailbox, and a drain right after it    *)
(* returns exactly [ZeroRttRejected].                                      *)
(***************************************************************************)
C1_RejectionSupersedesBacklog ==
    AfterRejection =>
        /\ events = <<ZeroRttRejected>>
        /\ DrainNow = <<ZeroRttRejected>>

\* recv_stream_readable(1) and send_stream_writable(0) were pending when the
\* rejection came, and are gone.
C1_Witness ==
    /\ AfterRejection
    /\ pre = <<SendStreamWritable(0), RecvStreamReadable(1)>>
    /\ events = <<ZeroRttRejected>>

(***************************************************************************)
(* C2.  events() returns exactly the events pending at the call: each      *)
(* event raised since the previous drain and not superseded by a rejection *)
(* once, nothing else, and the mailbox is empty when it returns.           *)
(***************************************************************************)
C2_DrainReturnsExactlyPending ==
    AfterDrain =>
        /\ Range(ret) = owed
        /\ Len(ret) = Cardinality(owed)
        /\ events = << >>

\* A drain after a rejection and two more events: it returns those three.
C2_Witness ==
    /\ AfterDrain
    /\ ZeroRttRejected \in owed
    /\ Cardinality(owed) = 3
    /\ Range(ret) = owed
    /\ events = << >>

(***************************************************************************)
(* C3.  The drained sequence is strictly ascending by variant rank         *)
(* (NewStream < SendStreamWritable < RecvStreamReadable < RecvStreamReset  *)
(* < SendStreamStopSending < SendStreamComplete < SendStreamCreatable <    *)
(* ConnectionClosed < ZeroRttRejected), then by the field tuple in         *)
(* declared field order; so it is the one ascending arrangement of the set *)
(* of events raised, whatever the order they were raised in.               *)
(***************************************************************************)
C3_VariantOrder ==
    <<"NewStream", "SendStreamWritable", "RecvStreamReadable", "RecvStreamReset",
      "SendStreamStopSending", "SendStreamComplete", "SendStreamCreatable",
      "ConnectionClosed", "ZeroRttRejected">>

C3_Rank(e) == CHOOSE i \in 1..Len(C3_VariantOrder) : C3_VariantOrder[i] = e.variant

\* x before y among sequences of numbers: lexical, a proper prefix first.
C3_SeqBefore(x, y) ==
    \E k \in 1..Len(y) :
        /\ \A j \in 1..(k - 1) : j <= Len(x) /\ x[j] = y[j]
        /\ k > Len(x) \/ x[k] < y[k]

\* Field i of variant v: error_code and reason_phrase are sequences, the
\* others numbers.
C3_FieldBefore(v, i, x, y) ==
    IF v = "ConnectionClosed" /\ i \in {1, 3} THEN C3_SeqBefore(x, y) ELSE x < y

C3_Before(a, b) ==
    \/ C3_Rank(a) < C3_Rank(b)
    \/ /\ C3_Rank(a) = C3_Rank(b)
       /\ \E i \in 1..Len(a.fields) :
            /\ \A j \in 1..(i - 1) : a.fields[j] = b.fields[j]
            /\ C3_FieldBefore(a.variant, i, a.fields[i], b.fields[i])

C3_Ascending(s) == \A i, j \in 1..Len(s) : i < j => C3_Before(s[i], s[j])

C3_DrainIsAscendingInAnyInsertionOrder ==
    /\ AfterDrain => C3_Ascending(ret) /\ Range(ret) = owed
    /\ CanCall => C3_Ascending(DrainNow) /\ Range(DrainNow) = live

\* recv_stream_readable(1) was raised after new_stream(1, uni) and
\* send_stream_complete(1), and a drain delivers it between the two.
C3_Witness ==
    /\ lastOp = "recv_stream_readable"
    /\ arg = RecvStreamReadable(1)
    /\ pre = <<NewStream(1, 1), SendStreamComplete(1)>>
    /\ DrainNow = <<NewStream(1, 1), RecvStreamReadable(1), SendStreamComplete(1)>>

(***************************************************************************)
(* C4.  Inserting a value that is already pending leaves the mailbox as it *)
(* was, so however often a value is inserted between two drains, the next  *)
(* drain holds it exactly once.                                            *)
(***************************************************************************)
C4_InsertIsIdempotent ==
    AfterInsert =>
        /\ arg \in Range(pre) => events = pre
        /\ Occurrences(DrainNow, arg) = 1

\* The value inserted was already pending, among others.
C4_Witness ==
    /\ AfterInsert
    /\ arg \in Range(pre)
    /\ Len(pre) = 3
    /\ events = pre

(***************************************************************************)
(* C5.  Deduplication is by the whole value: two events of one variant     *)
(* that differ in any field are both pending after both inserts, and both  *)
(* are in the next drain.                                                  *)
(***************************************************************************)
C5_DedupIsByFullValue ==
    AfterInsert =>
        \A x \in Range(pre) :
            (x.variant = arg.variant /\ x.fields # arg.fields) =>
                /\ {x, arg} \subseteq Range(events)
                /\ Occurrences(DrainNow, x) = 1
                /\ Occurrences(DrainNow, arg) = 1

\* recv_stream_reset on stream 1 with app_error 1, after one with app_error 0.
C5_Witness ==
    /\ lastOp = "recv_stream_reset"
    /\ arg = RecvStreamReset(1, 1)
    /\ RecvStreamReset(1, 0) \in Range(pre)
    /\ Len(events) = Len(pre) + 1
    /\ {RecvStreamReset(1, 0), RecvStreamReset(1, 1)} \subseteq Range(DrainNow)

(***************************************************************************)
(* C6.  A drain that follows another drain, with no insert operation in    *)
(* between, returns an empty sequence.                                     *)
(***************************************************************************)
C6_SecondDrainIsEmpty ==
    /\ streak = 2 => ret = << >>
    /\ AfterDrain => DrainNow = << >>

\* Events were raised, and then events() was called twice in a row.
C6_Witness ==
    /\ streak = 2
    /\ ~fresh
    /\ pre = << >>
    /\ ret = << >>

(***************************************************************************)
(* C7.  A freshly constructed mailbox is empty: a drain before any insert  *)
(* succeeds and returns an empty sequence.                                 *)
(***************************************************************************)
C7_FreshMailboxIsEmpty ==
    fresh =>
        /\ events = << >>
        /\ DrainNow = << >>
        /\ AfterDrain => ret = << >>
        /\ ~panicked

\* events() has been called on a mailbox nothing was ever inserted into.
C7_Witness ==
    /\ fresh
    /\ AfterDrain
    /\ ret = << >>

(***************************************************************************)
(* C8.  No call fails: no borrow of the cell is ever refused, and no       *)
(* borrow outlives its statement; in particular the borrow taken for       *)
(* clear() is released before insert takes its own.                        *)
(***************************************************************************)
C8_NoOperationFails ==
    /\ ~panicked
    /\ borrow = "UNUSED"
    /\ ~insert(Cell, ZeroRttRejected).panicked
    /\ ~clear_stmt(Cell).panicked
    /\ ~replace(Cell, BTreeSetNew).cell.panicked

\* client_0rtt_rejected has run both its statements and returned.
C8_Witness ==
    /\ AfterRejection
    /\ pre # << >>
    /\ events = <<ZeroRttRejected>>
    /\ ~panicked

(***************************************************************************)
(* C9.  The clear and the insert of client_0rtt_rejected are one step to   *)
(* every other caller: once the set is cleared, the only thing that        *)
(* happens next is the insert of ZeroRttRejected, so no other insert and   *)
(* no drain sees the cleared set, and nothing raised earlier survives.     *)
(***************************************************************************)
C9_RejectionIsIndivisible ==
    [][pc = "rejecting" =>
          /\ pc' = "idle"
          /\ lastOp' = "client_0rtt_rejected"
          /\ events = << >>
          /\ events' = <<ZeroRttRejected>>
          /\ ret' = ret]_vars

\* The state between the two statements, the backlog just cleared.
C9_Witness ==
    /\ pc = "rejecting"
    /\ Len(pre) = 3
    /\ events = << >>

(***************************************************************************)
(* C10.  A drain takes the whole set and leaves an empty one in a single   *)
(* step: each event pending when it is called is in the batch returned and *)
(* none is both returned and left pending; an event inserted is pending    *)
(* until a drain returns it or a rejection discards it.                    *)
(***************************************************************************)
C10_DrainIsAtomicSwap ==
    /\ AfterDrain =>
          /\ Range(ret) \cup Range(events) = Range(pre)
          /\ Range(ret) \cap Range(events) = {}
          /\ Len(ret) + Len(events) = Len(pre)
    /\ AfterInsert => arg \in Range(events) /\ Range(pre) \subseteq Range(events)
    /\ CanCall => Range(events) = live

\* A drain of three pending events.
C10_Witness ==
    /\ AfterDrain
    /\ Len(pre) = 3
    /\ ret = pre
    /\ events = << >>

(***************************************************************************)
(* C11.  Datagram round trip: for every source, destination and payload    *)
(* (the empty one too), a datagram made by Datagram::new gives back, from  *)
(* source(), destination() and its payload view, exactly what it was made  *)
(* from: the same bytes, as many, in the same order.                       *)
(***************************************************************************)
C11_DatagramRoundTrip ==
    dgram # << >> =>
        /\ source(dgram[1]).ret = given.src
        /\ destination(dgram[1]).ret = given.dst
        /\ Len(deref(dgram[1]).ret) = Len(given.d)
        /\ \A i \in 1..Len(given.d) : deref(dgram[1]).ret[i] = given.d[i]
        /\ seen.op = "source" => seen.value = given.src
        /\ seen.op = "destination" => seen.value = given.dst
        /\ seen.op = "deref" => seen.value = given.d

\* The payload view of a datagram made with two different endpoints and the
\* bytes 0, 255 has been read.
C11_Witness ==
    /\ dgram # << >>
    /\ given = [src |-> <<1, 443>>, dst |-> <<2, 443>>, d |-> <<0, 255>>]
    /\ seen = [op |-> "deref", value |-> <<0, 255>>]

(***************************************************************************)
(* C12.  A datagram is immutable after construction: no method (source,    *)
(* destination, the payload view, clone, equality) changes its source, its *)
(* destination or its payload.                                             *)
(***************************************************************************)
C12_DatagramIsImmutable ==
    [][(dgram # << >> /\ dgram' # << >>) =>
          /\ dgram' = dgram
          /\ dgram'[1] = new(given.src, given.dst, given.d)]_dvars

\* The datagram has been cloned and compared with its clone, and is as made.
C12_Witness ==
    /\ seen.op = "eq"
    /\ seen.value
    /\ Len(given.d) = 2
    /\ dgram = <<new(given.src, given.dst, given.d)>>

(***************************************************************************)
(* C13.  The mailbox is Empty or NonEmpty and never stuck: right after any *)
(* insert operation, client_0rtt_rejected included, it is NonEmpty; between*)
(* calls it is Empty only at construction or right after a drain; and      *)
(* whatever has been inserted or drained, ConnectionClosed and             *)
(* ZeroRttRejected included, every insert is accepted and takes effect,    *)
(* and so are a rejection and a drain.                                     *)
(***************************************************************************)
C13_EmptyNonEmptyNoTerminalState ==
    /\ (AfterInsert \/ AfterRejection) => events # << >>
    /\ AfterInsert => arg \in Range(events)
    /\ (CanCall /\ events = << >>) => lastOp \in {"default", "events"}
    /\ ~panicked
    /\ pc = "idle" =>
          /\ \A e \in ConnectionEvent :
                LET c == insert(Cell, e)
                IN  ~c.panicked /\ e \in Range(c.value)
          /\ ~clear_stmt(Cell).panicked
          /\ ~replace(Cell, BTreeSetNew).cell.panicked
    /\ pc = "rejecting" => ~insert(Cell, ZeroRttRejected).panicked

\* With ConnectionClosed and ZeroRttRejected both pending, one more event
\* has been inserted.
C13_Witness ==
    /\ AfterInsert
    /\ ZeroRttRejected \in Range(pre)
    /\ \E x \in Range(pre) : x.variant = "ConnectionClosed"
    /\ arg \notin Range(pre)
    /\ arg \in Range(events)

(***************************************************************************)
(* C15.  An insert operation other than client_0rtt_rejected only adds: it *)
(* removes and alters nothing that was pending, so between two drains with *)
(* no rejection in between the pending set only grows, and the next drain  *)
(* returns all that was pending at any earlier point of the interval.      *)
(***************************************************************************)
C15_InsertOnlyAdds ==
    /\ AfterInsert =>
          /\ Range(pre) \subseteq Range(events)
          /\ SelectSeq(events, LAMBDA x : x # arg) = SelectSeq(pre, LAMBDA x : x # arg)
          /\ Range(pre) \subseteq Range(DrainNow)
    /\ CanCall => live \subseteq Range(DrainNow)

\* An event has gone in between two pending ones, which are as they were.
C15_Witness ==
    /\ AfterInsert
    /\ Len(pre) = 2
    /\ events = <<pre[1], arg, pre[2]>>

(***************************************************************************)
(* C17.  In every drained sequence that holds ZeroRttRejected, it is the   *)
(* last element: the other events of the batch come before the rejection   *)
(* notice, whatever the order they were inserted in.                       *)
(***************************************************************************)
C17_ZeroRttRejectedIsLast ==
    /\ (AfterDrain /\ ZeroRttRejected \in Range(ret)) =>
          /\ ret[Len(ret)] = ZeroRttRejected
          /\ Occurrences(ret, ZeroRttRejected) = 1
    /\ (CanCall /\ ZeroRttRejected \in live) => DrainNow[Len(DrainNow)] = ZeroRttRejected

\* A batch of three: two events raised after the rejection, then the notice.
C17_Witness ==
    /\ AfterDrain
    /\ Len(ret) = 3
    /\ ret[2].variant = "ConnectionClosed"
    /\ ret[3] = ZeroRttRejected

(***************************************************************************)
(* C16.  A rejection supersedes only what was inserted before it: events   *)
(* inserted after it and before the next drain are kept, and that drain    *)
(* returns ZeroRttRejected with exactly the events inserted after the      *)
(* rejection, and none of those inserted before it.                        *)
(***************************************************************************)
C16_RejectionSupersedesOnlyEarlierEvents ==
    /\ (CanCall /\ ZeroRttRejected \in live) =>
          /\ Range(DrainNow) = live
          /\ Len(DrainNow) = Cardinality(live)
    /\ (AfterInsert /\ ZeroRttRejected \in Range(pre)) =>
          Range(events) = Range(pre) \cup {arg}
    /\ (AfterDrain /\ ZeroRttRejected \in owed) => Range(ret) = owed

\* A rejection discarded a backlog; two events were raised after it, and a
\* drain returns those two and the notice.
C16_Witness ==
    /\ AfterInsert
    /\ hadBacklog
    /\ pre = <<SendStreamWritable(0), ZeroRttRejected>>
    /\ arg = RecvStreamReadable(1)
    /\ DrainNow = <<SendStreamWritable(0), RecvStreamReadable(1), ZeroRttRejected>>

(***************************************************************************)
(* C18.  Deduplication has no memory: a value that a drain has returned or *)
(* a rejection has discarded, inserted again, is pending again and is in   *)
(* the next drain; and a drain returns nothing but what was inserted since *)
(* the drain before it, so an event inserted once is returned once.        *)
(***************************************************************************)
C18_DedupHasNoMemory ==
    /\ (AfterInsert /\ reraised) =>
          /\ arg \in Range(events)
          /\ Occurrences(DrainNow, arg) = 1
    /\ CanCall => Range(DrainNow) \subseteq live
    /\ AfterDrain => Range(ret) \cap Range(DrainNow) = {}

\* The value inserted is one the drain just before had returned.
C18_Witness ==
    /\ AfterInsert
    /\ reraised
    /\ pre = << >>
    /\ events = <<arg>>

(***************************************************************************)
(* C14.  All clones of a ConnectionEvents refer to one pending set: an     *)
(* event inserted through any clone is returned by a drain through any     *)
(* other, a drain through one clone empties the mailbox all of them see,   *)
(* and a rejection through one discards what was inserted through all.     *)
(***************************************************************************)
\* What events() would return if it were called on the handle self.
DrainNowOn(self) == replace(CellAt(self), BTreeSetNew).ret

C14_ClonesShareOnePendingSet ==
    /\ \A h \in Handles : handles[h] = handles[1]
    /\ CanCall => \A h \in Handles : Range(DrainNowOn(h)) = live
    /\ AfterInsert => \A h \in Handles : arg \in Range(DrainNowOn(h))
    /\ AfterDrain => \A h \in Handles : CellAt(h).value = << >>
    /\ AfterRejection => \A h \in Handles : CellAt(h).value = <<ZeroRttRejected>>

\* An event raised through the second handle, after one was pending, is in
\* what a drain through the first would return.
C14_Witness ==
    /\ Len(handles) = 2
    /\ AfterInsert
    /\ by = 2
    /\ arg = RecvStreamReadable(1)
    /\ pre = <<SendStreamWritable(0)>>
    /\ DrainNowOn(1) = <<SendStreamWritable(0), RecvStreamReadable(1)>>

=============================================================================
